---- MODULE Spec2Model ----
(***************************************************************************)
(* Model of hass-lovelace-kindle-screensaver (src/index.js, src/config.js) *)
(*                                                                         *)
(* The program is one Node.js process: main() validates the configuration, *)
(* runs a first render cycle, arms a cron job that starts further render   *)
(* cycles, and serves the rendered images over HTTP.  Every `await` of the *)
(* source is a point where the other asynchronous activities (other render *)
(* cycles, HTTP requests, floating promises) may run, so every action      *)
(* below is the code between two awaits.                                   *)
(***************************************************************************)
EXTENDS Integers, Sequences, FiniteSets, TLC

\* Number of configured targets (config.pages.length).
NumPages == 2

\* Highest ordinal n for which the environment may hold variables with the
\* suffix _n.
MaxOrdinal == 3

\* Render cycle invocations the model follows: the first render and the
\* cron firings after it.
MaxCycles == 3

\* pageIndex of src/index.js:301 (0-based).
Pages == 0 .. (NumPages - 1)

Cycles == 1 .. MaxCycles

VARIABLES
    debug,          \* config.debug
    env,            \* process.env: the variables the modelled settings are read from
    pages,          \* config.pages as getPagesConfig built it
    pixel,          \* a channel value put through the contrast step, with the result
    rotation,       \* per configured target: config.pages[i].rotation
    mainPc,         \* position of the top-level async function (index.js:17-68)
    cronArmed,      \* the CronJob has been created and started
    listening,      \* httpServer.listen has been called
    died,           \* "" while the process runs, else the call whose unhandled
                    \* promise rejection ended it
    cpc,            \* per render cycle: position in renderAndConvertAsync
    pageIndex,      \* per render cycle: loop variable of index.js:301
    attempt,        \* per render cycle: loop variable of index.js:270
    browser,        \* per render cycle: state of the browser it launched
    pagesOpen,      \* per render cycle: target pages open in its browser
    captured,       \* per render cycle: the current target's screenshot was written
    size,           \* per render cycle: the size given to setViewport and to the
                    \* screenshot clip of the current target
    pageBatteryStore, \* per render cycle: batteryStore[pageIndex] was an object at index.js:303
    relayed,        \* per render cycle: targets for which a webhook POST was sent
    previous,       \* per render cycle: the current target's artifact as it was
                    \* when the cycle turned to the target
    temp,           \* per target: the file outputPath + ".temp"
    artifact,       \* per target: the file outputPath
    encoding,       \* per target: the encoder that wrote the artifact ("" for a
                    \* file this process has not written)
    pendingUnlink,  \* un-awaited fs.unlink(tempPath) calls still in flight
    batteryStore,   \* the global batteryStore object
    req             \* the HTTP request last received, with its response

cycleVars == <<cpc, pageIndex, attempt, browser, pagesOpen, captured, size,
               pageBatteryStore, relayed, previous>>
fileVars  == <<temp, artifact, encoding, pendingUnlink>>
mainVars  == <<debug, env, pages, pixel, rotation, mainPc, cronArmed, listening, died>>
httpVars  == <<batteryStore, req>>
vars      == <<mainVars, cycleVars, fileVars, httpVars>>


(***************************************************************************)
(* Configuration (src/config.js).  Two settings of a target matter to the  *)
(* render and serving paths modelled here; every target has its own output *)
(* path, so its artifact and its temporary file are its own.               *)
(***************************************************************************)

\* pages[i].imageFormat: IMAGE_FORMAT is "png" by default, and the second
\* and later targets are configured with IMAGE_FORMAT_n = "bmp".
imageFormat(i) == IF i = 0 THEN "png" ELSE "bmp"

\* pages[i].batteryWebHook: HA_BATTERY_WEBHOOK names a webhook id for the
\* first target and HA_BATTERY_WEBHOOK_n is set to the empty string for the
\* others, which gives them null.
batteryWebHook(i) == IF i = 0 THEN "hook" ELSE "null"

\* pages[i].renderingScreenSize: the defaults of config.js:23-27, which all
\* targets share.
renderingScreenSize(i) == [width |-> 600, height |-> 800]

\* Values of ROTATION and ROTATION_n after Number(...) || 0 (config.js:35).
Rotations == {0, 90, 180, 270, 360, 0 - 90, 45, 0 - 45}

\* The % operator of JavaScript on integers: the remainder of the division
\* that truncates toward zero, so it has the sign of the dividend.
Remainder(a, b) == IF a >= 0 THEN a % b ELSE 0 - ((0 - a) % b)

\* index.js:18-28: main goes on past its two checks.
ValidConfig(rot) ==
    /\ DOMAIN rot # {}
    /\ \A i \in DOMAIN rot : ~(Remainder(rot[i], 90) > 0)

\* index.js:414-424: the size given to page.setViewport and, at line 480,
\* to the clip of page.screenshot.
EffectiveSize(i, r) ==
    IF Remainder(r, 180) > 0
    THEN [width |-> renderingScreenSize(i).height, height |-> renderingScreenSize(i).width]
    ELSE renderingScreenSize(i)

\* No viewport has been set for the current target.
NoSize == [width |-> 0, height |-> 0]

\* index.js:542-546: the encoder chosen for the output, whatever the
\* target's colorMode and imageFormat.
Encoder(format) == "png"

(***************************************************************************)
(* JavaScript values.  A number that may be NaN, and a stored level that   *)
(* may be null, are sequences of length at most one.                       *)
(***************************************************************************)
NaN == << >>

Null == << >>

Digits == {"0", "1", "2", "3", "4", "5", "6", "7", "8", "9"}

WhiteSpace == {" "}

DigitValue(ch) ==
    CASE ch = "0" -> 0 [] ch = "1" -> 1 [] ch = "2" -> 2 [] ch = "3" -> 3
      [] ch = "4" -> 4 [] ch = "5" -> 5 [] ch = "6" -> 6 [] ch = "7" -> 7
      [] ch = "8" -> 8 [] ch = "9" -> 9

RECURSIVE TrimStart(_)
TrimStart(s) ==
    IF s # << >> /\ Head(s) \in WhiteSpace THEN TrimStart(Tail(s)) ELSE s

\* The value of the longest prefix of decimal digits of s, NaN when s does
\* not start with a digit; acc is the value read so far.
RECURSIVE ReadDigits(_, _, _)
ReadDigits(s, acc, any) ==
    IF s # << >> /\ Head(s) \in Digits
    THEN ReadDigits(Tail(s), 10 * acc + DigitValue(Head(s)), TRUE)
    ELSE IF any THEN <<acc>> ELSE NaN

\* parseInt(string) of ECMAScript for radix 10: leading white space is
\* skipped, one sign is read, then the longest run of digits; whatever
\* follows the digits is ignored.  A string is a sequence of characters.
parseInt(s) ==
    LET t == TrimStart(s)
        neg == t # << >> /\ Head(t) = "-"
        u == IF t # << >> /\ Head(t) \in {"-", "+"} THEN Tail(t) ELSE t
        n == ReadDigits(u, 0, FALSE)
    IN  IF n = NaN THEN NaN ELSE IF neg THEN <<0 - n[1]>> ELSE n

(***************************************************************************)
(* The environment and getPagesConfig (src/config.js:1-43).  A variable of *)
(* process.env is named by its key and the ordinal n of its suffix: no     *)
(* suffix for n = 1, "_n" otherwise.  Its value is a string or undefined.  *)
(***************************************************************************)
Undefined == "<undefined>"

EnvKeys == {"HA_SCREENSHOT_URL", "IMAGE_FORMAT", "OUTPUT_PATH",
            "HA_BATTERY_WEBHOOK", "CONTRAST"}

Ordinals == 1 .. MaxOrdinal

EnvNames == EnvKeys \X Ordinals

\* process.env[key + suffix]; a variable beyond the modelled ordinals is not
\* set.
Lookup(e, key, n) == IF <<key, n>> \in DOMAIN e THEN e[<<key, n>>] ELSE Undefined

\* The truthiness of a string or undefined.
Truthy(value) == value \notin {Undefined, ""}

\* a || b on strings
OrElse(a, b) == IF Truthy(a) THEN a ELSE b

\* A variant of getEnvironmentVariable whose fallback never wins over the
\* variable without suffix.
getEnvironmentVariable_BaseFirst(e, key, n, fallbackValue) ==
    IF Lookup(e, key, n) # Undefined THEN Lookup(e, key, n)
    ELSE OrElse(Lookup(e, key, 1), fallbackValue)

\* config.js:1-5
getEnvironmentVariable(e, key, n, fallbackValue) ==
    IF Lookup(e, key, n) # Undefined THEN Lookup(e, key, n)
    ELSE OrElse(fallbackValue, Lookup(e, key, 1))

\* config.js:10: the suffix of ordinal i.
Suffix(i) == IF i = 1 THEN "" ELSE "_" \o ToString(i)

\* Number(value) of ECMAScript on the values the model gives CONTRAST: the
\* empty string is 0, a decimal numeral is its value, and undefined or any
\* other text is NaN.
Number(value) ==
    CASE value = "" -> <<0>>
      [] value = "0" -> <<0>>
      [] value = "1" -> <<1>>
      [] value = "2" -> <<2>>
      [] value = "3" -> <<3>>
      [] OTHER -> NaN

\* n || fallback on numbers: 0 and NaN are falsy.
NumberOr(n, fallback) == IF n = NaN \/ n = <<0>> THEN fallback ELSE n

\* config.js:14-40: the entry pushed for ordinal i.
PageConfig(e, i) ==
    [screenShotUrl  |-> Lookup(e, "HA_SCREENSHOT_URL", i),
     imageFormat    |-> OrElse(getEnvironmentVariable(e, "IMAGE_FORMAT", i, Undefined), "png"),
     outputPath     |-> getEnvironmentVariable(e, "OUTPUT_PATH", i, "output/cover" \o Suffix(i)),
     batteryWebHook |-> OrElse(getEnvironmentVariable(e, "HA_BATTERY_WEBHOOK", i, Undefined), "null"),
     contrast       |-> NumberOr(Number(getEnvironmentVariable(e, "CONTRAST", i, Undefined)), <<1>>)]

\* config.js:7-43: the loop from ordinal i on, acc being the entries pushed
\* so far.
RECURSIVE PagesFrom(_, _, _)
PagesFrom(e, i, acc) ==
    IF ~Truthy(Lookup(e, "HA_SCREENSHOT_URL", i)) THEN acc
    ELSE PagesFrom(e, i + 1, Append(acc, PageConfig(e, i)))

getPagesConfig(e) == PagesFrom(e, 1, << >>)

\* The environment of the deployment the render and serving paths are
\* modelled for, with n targets: the defaults, but for the IMAGE_FORMAT_n
\* and HA_BATTERY_WEBHOOK settings described above.
DeployedEnv(n) ==
    [name \in EnvNames |->
        LET key == name[1]
            k == name[2]
        IN  IF k > n THEN Undefined
            ELSE IF key = "HA_SCREENSHOT_URL" THEN "/lovelace/" \o ToString(k)
            ELSE IF key = "IMAGE_FORMAT" /\ k > 1 THEN "bmp"
            ELSE IF key = "HA_BATTERY_WEBHOOK" THEN (IF k = 1 THEN "hook" ELSE "")
            ELSE Undefined]

(***************************************************************************)
(* The contrast step of the post-processor (index.js:522-524).  A channel  *)
(* value is an integer in 0..255; sharp's linear computes a * v + b and    *)
(* stores it back into the 8-bit channel, which clips it to 0..255.        *)
(***************************************************************************)
Clip(x) == IF x < 0 THEN 0 ELSE IF x > 255 THEN 255 ELSE x

Linear(v, a, b) == Clip(a * v + b)

\* index.js:522-524; contrast is pageConfig.contrast.
ContrastStep(contrast, v) ==
    IF contrast # <<1>>
    THEN Linear(v, contrast[1], (0 - (128 * contrast[1])) + 128)
    ELSE v

\* No channel value has been put through the contrast step.
NoPixel == [target |-> 0, in |-> 0, out |-> 0]

(***************************************************************************)
(* Files.  A file is absent or holds one version of its content; a version *)
(* is named by the render cycle that wrote it (0: a file that was on disk  *)
(* when the process started).  sharp's toFile opens the output path and    *)
(* writes into it, so while a conversion runs the artifact is "partial".   *)
(***************************************************************************)
NoFile == [kind |-> "absent", by |-> 0]

OldFile == [kind |-> "complete", by |-> 0]

Screenshot(c) == [kind |-> "complete", by |-> c]

PartialImage(c) == [kind |-> "partial", by |-> c]

CompleteImage(c) == [kind |-> "complete", by |-> c]

FileExists(f) == f.kind # "absent"


(***************************************************************************)
(* Battery State (index.js:15, 175-202) and the relay decision (335-339).  *)
(* batteryStore is a JavaScript object: a function whose domain is the set *)
(* of page indices that have an entry.                                     *)
(***************************************************************************)
NewEntry == [batteryLevel |-> Null, isCharging |-> FALSE]

\* A variant of Put that keeps the entry of page i only.
Put_Alone(store, i, entry) == [k \in {i} |-> entry]

Put(store, i, entry) ==
    [k \in (DOMAIN store) \cup {i} |-> IF k = i THEN entry ELSE store[k]]

\* index.js:176-181: the entry of pageIndex i, created when missing.
EntryOf(store, i) == IF i \in DOMAIN store THEN store[i] ELSE NewEntry

\* A variant of ValidBatteryLevel that takes every number.
ValidBatteryLevel_AnyNumber(batteryLevel) == batteryLevel # NaN

\* index.js:182
ValidBatteryLevel(batteryLevel) ==
    batteryLevel # NaN /\ batteryLevel[1] >= 0 /\ batteryLevel[1] <= 100

\* A variant of LevelChanges that records a level only while none is stored.
LevelChanges_OnlyFirst(entry, batteryLevel) ==
    ValidBatteryLevel(batteryLevel) /\ entry.batteryLevel = Null

\* index.js:183
LevelChanges(entry, batteryLevel) ==
    ValidBatteryLevel(batteryLevel) /\ batteryLevel # entry.batteryLevel

\* A variant of StartsCharging that does not look at the level.
StartsCharging_AnyLevel(entry, batteryLevel, isCharging) ==
    /\ isCharging \in {"Yes", "1"}
    /\ entry.isCharging # TRUE

\* index.js:190-192
StartsCharging(entry, batteryLevel, isCharging) ==
    /\ ValidBatteryLevel(batteryLevel)
    /\ isCharging \in {"Yes", "1"}
    /\ entry.isCharging # TRUE

\* index.js:195-198
StopsCharging(entry, batteryLevel, isCharging) ==
    /\ ValidBatteryLevel(batteryLevel)
    /\ ~StartsCharging(entry, batteryLevel, isCharging)
    /\ isCharging \in {"No", "0"}
    /\ entry.isCharging # FALSE

\* index.js:182-202: the entry after the telemetry of one request.
UpdatedEntry(entry, batteryLevel, isCharging) ==
    [batteryLevel |-> IF LevelChanges(entry, batteryLevel)
                      THEN batteryLevel ELSE entry.batteryLevel,
     isCharging   |-> IF StartsCharging(entry, batteryLevel, isCharging) THEN TRUE
                      ELSE IF StopsCharging(entry, batteryLevel, isCharging) THEN FALSE
                      ELSE entry.isCharging]

\* A variant of LoggedEvents that logs every valid level, changed or not.
LoggedEvents_EveryLevel(entry, batteryLevel, isCharging) ==
    (IF ValidBatteryLevel(batteryLevel) THEN {"New battery level"} ELSE {})
    \cup (IF StartsCharging(entry, batteryLevel, isCharging)
          THEN {"Battery started charging"} ELSE {})
    \cup (IF StopsCharging(entry, batteryLevel, isCharging)
          THEN {"Battery stopped charging"} ELSE {})

\* index.js:185, 194, 199: the console.log lines of one request's telemetry.
LoggedEvents(entry, batteryLevel, isCharging) ==
    (IF LevelChanges(entry, batteryLevel) THEN {"New battery level"} ELSE {})
    \cup (IF StartsCharging(entry, batteryLevel, isCharging)
          THEN {"Battery started charging"} ELSE {})
    \cup (IF StopsCharging(entry, batteryLevel, isCharging)
          THEN {"Battery stopped charging"} ELSE {})

\* index.js:335-339: hasEntry is the truthiness of the pageBatteryStore
\* reference taken at index.js:303; the level is read through it now.
ShouldRelay(hasEntry, store, i) ==
    /\ hasEntry
    /\ store[i].batteryLevel # Null
    /\ batteryWebHook(i) # "null"

(***************************************************************************)
(* Request parsing (index.js:137-153).                                     *)
(***************************************************************************)
\* index.js:142-143; pathname is a sequence of characters starting with "/".
PageNumber(pathname) ==
    IF pathname = <<"/">> THEN <<1>> ELSE parseInt(Tail(pathname))

\* index.js:144-148
InvalidRequest(pageNumber) ==
    \/ pageNumber = NaN
    \/ pageNumber[1] > NumPages
    \/ pageNumber[1] < 1

\* A variant of ContentType that announces PNG for every target.
ContentType_AlwaysPng(i) == "image/png"

\* index.js:169
ContentType(i) == "image/" \o imageFormat(i)


(***************************************************************************)
(* Initial state: the process has loaded its configuration.  The output    *)
(* directory is empty (a first start), or holds the artifacts and the      *)
(* temporary files of an earlier run of the program that was stopped       *)
(* between index.js:313 and 324 (a restart).                               *)
(***************************************************************************)
\* A request record holds what handleImageRequest has parsed and read so
\* far and, once pc is "done", the response it wrote.
NoRequest ==
    [pc |-> "idle", url |-> << >>, pathname |-> << >>, pageNumber |-> 0,
     fullPath |-> << >>, error |-> "",
     batteryLevel |-> NaN, isCharging |-> "", repeated |-> FALSE,
     data |-> NoFile, status |-> 0, lastModified |-> NoFile,
     contentType |-> "", events |-> {}]

\* Everything but the configuration and the position of main.
Boot ==
    /\ debug \in BOOLEAN
    /\ cronArmed = FALSE
    /\ listening = FALSE
    /\ died = ""
    /\ cpc = [c \in Cycles |-> "idle"]
    /\ pageIndex = [c \in Cycles |-> 0]
    /\ attempt = [c \in Cycles |-> 0]
    /\ browser = [c \in Cycles |-> "none"]
    /\ pagesOpen = [c \in Cycles |-> 0]
    /\ captured = [c \in Cycles |-> FALSE]
    /\ size = [c \in Cycles |-> NoSize]
    /\ pageBatteryStore = [c \in Cycles |-> FALSE]
    /\ relayed = [c \in Cycles |-> {}]
    /\ previous = [c \in Cycles |-> NoFile]
    /\ \E f \in {NoFile, OldFile} :
          /\ artifact = [i \in Pages |-> f]
          /\ temp = [i \in Pages |-> f]
    /\ encoding = [i \in Pages |-> ""]
    /\ pendingUnlink = {}
    /\ batteryStore = [i \in {} |-> NewEntry]
    /\ req = NoRequest

\* The first target is not rotated (ROTATION unset), the others are
\* configured with ROTATION_n a quarter turn more than the one before.
Init ==
    /\ Boot
    /\ rotation = [i \in Pages |-> 90 * i]
    /\ env = DeployedEnv(NumPages)
    /\ pages = getPagesConfig(env)
    /\ pixel = NoPixel
    /\ mainPc = "start"

\* A variant of existingBrowser in which the cron firings are handed a
\* browser too.
existingBrowser_Retained(c) == debug \/ c > 1

\* renderAndConvertAsync was called with a browser (index.js:35): only the
\* single cycle of debug mode.
existingBrowser(c) == debug /\ c = 1

(***************************************************************************)
(* Loading the configuration (index.js:1, config.js:45-59) and the         *)
(* contrast step on one channel value.                                     *)
(***************************************************************************)
\* index.js:1: require("./config") runs getPagesConfig on the environment.
LoadConfig ==
    /\ mainPc = "require"
    /\ pages' = getPagesConfig(env)
    /\ mainPc' = "start"
    /\ UNCHANGED <<debug, env, pixel, rotation, cronArmed, listening, died,
                   cycleVars, fileVars, httpVars>>

\* index.js:522-524 for target n (an ordinal) on the channel value v; a
\* behaviour follows one channel value.
Contrast(n, v) ==
    /\ mainPc = "start"
    /\ pixel = NoPixel
    /\ n \in 1 .. Len(pages)
    /\ pixel' = [target |-> n, in |-> v, out |-> ContrastStep(pages[n].contrast, v)]
    /\ UNCHANGED <<debug, env, pages, rotation, mainPc, cronArmed, listening, died,
                   cycleVars, fileVars, httpVars>>

(***************************************************************************)
(* main (index.js:17-68)                                                   *)
(***************************************************************************)
\* index.js:18-38: the configuration is valid; debug mode awaits
\* launchBrowserAndLogin, daemon mode awaits the first renderAndConvertAsync,
\* whose first await is launchBrowserAndLogin too.
MainStart ==
    /\ died = ""
    /\ mainPc = "start"
    /\ ValidConfig(rotation)
    /\ mainPc' = IF debug THEN "awaitLogin" ELSE "awaitFirstRender"
    /\ cpc' = [cpc EXCEPT ![1] = "launch"]
    /\ UNCHANGED <<debug, env, pages, pixel, rotation, cronArmed, listening, died>>
    /\ UNCHANGED <<pageIndex, attempt, browser, pagesOpen, captured, size,
                   pageBatteryStore, relayed, previous>>
    /\ UNCHANGED <<fileVars, httpVars>>

\* index.js:18-28: no target is configured, or a rotation fails the check of
\* line 23; main logs and returns, and the process has nothing left to run.
MainReject ==
    /\ died = ""
    /\ mainPc = "start"
    /\ ~ValidConfig(rotation)
    /\ mainPc' = "rejected"
    /\ UNCHANGED <<debug, env, pages, pixel, rotation, cronArmed, listening, died>>
    /\ UNCHANGED <<cycleVars, fileVars, httpVars>>

\* A variant of MainArmAndListen that does not wait for the first render to
\* return.
MainArmAndListen_NoWait ==
    /\ died = ""
    /\ mainPc = "awaitFirstRender"
    /\ mainPc' = "serving"
    /\ cronArmed' = TRUE
    /\ listening' = TRUE
    /\ UNCHANGED <<debug, env, pages, pixel, rotation, died, cycleVars, fileVars, httpVars>>

\* index.js:39-67: the first render returned; the cron job is created and
\* started and the server listens, with no await in between.
MainArmAndListen ==
    /\ died = ""
    /\ mainPc = "awaitFirstRender"
    /\ cpc[1] = "done"
    /\ mainPc' = "serving"
    /\ cronArmed' = TRUE
    /\ listening' = TRUE
    /\ UNCHANGED <<debug, env, pages, pixel, rotation, died, cycleVars, fileVars, httpVars>>

\* index.js:42: a cron firing calls renderAndConvertAsync(); nothing looks
\* at whether an earlier cycle is still running.
CronFire(c) ==
    /\ died = ""
    /\ cronArmed
    /\ cpc[c] = "idle"
    /\ \A d \in Cycles : d < c => cpc[d] # "idle"
    /\ cpc' = [cpc EXCEPT ![c] = "launch"]
    /\ UNCHANGED <<pageIndex, attempt, browser, pagesOpen, captured, size,
                   pageBatteryStore, relayed, previous>>
    /\ UNCHANGED <<mainVars, fileVars, httpVars>>

\* A promise nobody awaits or catches was rejected: the top-level function
\* (index.js:17, 34, 38), the un-awaited cycle of debug mode (index.js:35)
\* or a cron callback (index.js:42).  Node.js ends the process.
UnhandledRejection(c) ==
    /\ died = ""
    /\ cpc[c] \in {"loginThrown", "thrown"}
    /\ died' = IF cpc[c] = "loginThrown" THEN "launchBrowserAndLogin" ELSE "ensureDir"
    /\ UNCHANGED <<debug, env, pages, pixel, rotation, mainPc, cronArmed, listening>>
    /\ UNCHANGED <<cycleVars, fileVars, httpVars>>


(***************************************************************************)
(* launchBrowserAndLogin (index.js:230-296)                                *)
(***************************************************************************)
\* Render cycle c is at pc.  The file-system request of an un-awaited
\* fs.unlink (index.js:324) was queued before anything the cycle does
\* next, so it settles before the cycle's next await resolves.
At(c, pc) ==
    /\ died = ""
    /\ cpc[c] = pc
    /\ \A i \in Pages : <<c, i>> \notin pendingUnlink

Goto(c, pc) == cpc' = [cpc EXCEPT ![c] = pc]

\* The exception leaves launchBrowserAndLogin and, through index.js:299,
\* renderAndConvertAsync, whose try block has not been entered.
LoginThrows(c) == Goto(c, "loginThrown")

\* index.js:232-252: puppeteer.launch resolves with a running browser or
\* rejects (launch timeout) with none.
Launch(c) ==
    /\ At(c, "launch")
    /\ \/ /\ browser' = [browser EXCEPT ![c] = "running"]
          /\ Goto(c, "goto")
       \/ /\ LoginThrows(c)
          /\ UNCHANGED browser
    /\ UNCHANGED <<pageIndex, attempt, pagesOpen, captured, size, pageBatteryStore, relayed, previous>>
    /\ UNCHANGED <<mainVars, fileVars, httpVars>>

\* index.js:255-259: newPage and goto(baseUrl); line 270 starts the loop.
LoginGoto(c) ==
    /\ At(c, "goto")
    /\ \/ /\ Goto(c, "evaluate")
          /\ attempt' = [attempt EXCEPT ![c] = 1]
       \/ /\ LoginThrows(c)
          /\ UNCHANGED attempt
    /\ UNCHANGED <<pageIndex, browser, pagesOpen, captured, size, pageBatteryStore, relayed, previous>>
    /\ UNCHANGED <<mainVars, fileVars, httpVars>>

\* A variant of LoginEvaluate that gives up after the fourth failed attempt.
LoginEvaluate_FourAttempts(c) ==
    /\ At(c, "evaluate")
    /\ \/ Goto(c, "closeLoginPage")
       \/ /\ attempt[c] < 4
          /\ Goto(c, "settle")
       \/ /\ ~(attempt[c] < 4)
          /\ LoginThrows(c)
    /\ UNCHANGED <<pageIndex, attempt, browser, pagesOpen, captured, size,
                   pageBatteryStore, relayed, previous>>
    /\ UNCHANGED <<mainVars, fileVars, httpVars>>

\* index.js:270-292: one attempt to write localStorage.
LoginEvaluate(c) ==
    /\ At(c, "evaluate")
    /\ \/ Goto(c, "closeLoginPage")
       \/ /\ attempt[c] < 3
          /\ Goto(c, "settle")
       \/ /\ ~(attempt[c] < 3)
          /\ LoginThrows(c)
    /\ UNCHANGED <<pageIndex, attempt, browser, pagesOpen, captured, size,
                   pageBatteryStore, relayed, previous>>
    /\ UNCHANGED <<mainVars, fileVars, httpVars>>

\* A variant of LoginSettle that does not count the attempt.
LoginSettle_Uncounted(c) ==
    /\ At(c, "settle")
    /\ Goto(c, "evaluate")
    /\ UNCHANGED <<pageIndex, attempt, browser, pagesOpen, captured, size,
                   pageBatteryStore, relayed, previous>>
    /\ UNCHANGED <<mainVars, fileVars, httpVars>>

\* index.js:286-287, then attempt++ of line 270.
LoginSettle(c) ==
    /\ At(c, "settle")
    /\ attempt' = [attempt EXCEPT ![c] = @ + 1]
    /\ Goto(c, "evaluate")
    /\ UNCHANGED <<pageIndex, browser, pagesOpen, captured, size, pageBatteryStore, relayed, previous>>
    /\ UNCHANGED <<mainVars, fileVars, httpVars>>

\* index.js:301-308: the head of the loop body for target i, up to the
\* await of ensureDir; past the last target the finally block is entered.
LoopHead(c, i) ==
    IF i < NumPages
    THEN /\ Goto(c, "ensureDir")
         /\ pageIndex' = [pageIndex EXCEPT ![c] = i]
         /\ pageBatteryStore' = [pageBatteryStore EXCEPT ![c] = (i \in DOMAIN batteryStore)]
         /\ captured' = [captured EXCEPT ![c] = FALSE]
         /\ size' = [size EXCEPT ![c] = NoSize]
         /\ previous' = [previous EXCEPT ![c] = artifact[i]]
    ELSE /\ Goto(c, "finally")
         /\ pageIndex' = [pageIndex EXCEPT ![c] = i]
         /\ pageBatteryStore' = [pageBatteryStore EXCEPT ![c] = FALSE]
         /\ captured' = [captured EXCEPT ![c] = FALSE]
         /\ size' = [size EXCEPT ![c] = NoSize]
         /\ previous' = [previous EXCEPT ![c] = NoFile]

\* index.js:294-295 and 299-308: the login page is closed and the browser
\* returned.  In debug mode the caller is main, which calls
\* renderAndConvertAsync(browser) without awaiting it and goes on to
\* index.js:48-67.
CloseLoginPage(c) ==
    /\ At(c, "closeLoginPage")
    /\ attempt' = [attempt EXCEPT ![c] = 0]
    /\ \/ /\ LoopHead(c, 0)
          /\ mainPc' = IF existingBrowser(c) THEN "serving" ELSE mainPc
          /\ listening' = IF existingBrowser(c) THEN TRUE ELSE listening
       \/ /\ LoginThrows(c)
          /\ UNCHANGED <<pageIndex, pageBatteryStore, captured, size, previous, mainPc, listening>>
    /\ UNCHANGED <<browser, pagesOpen, relayed>>
    /\ UNCHANGED <<debug, env, pages, pixel, rotation, cronArmed, died, fileVars, httpVars>>


(***************************************************************************)
(* renderAndConvertAsync (index.js:298-359) with renderUrlToImageAsync     *)
(* (391-496) and convertImageToKindleCompatiblePngAsync (498-549)          *)
(***************************************************************************)
\* index.js:335-346, then the next round of the loop: the relay decision
\* for the current target and the loop head of the next one.
AfterTarget(c) ==
    /\ relayed' = [relayed EXCEPT ![c] =
                     IF ShouldRelay(pageBatteryStore[c], batteryStore, pageIndex[c])
                     THEN @ \cup {pageIndex[c]} ELSE @]
    /\ LoopHead(c, pageIndex[c] + 1)

\* index.js:308: ensureDir; its rejection is caught by nothing inside the
\* loop, so it runs the finally block and leaves renderAndConvertAsync.
EnsureDir(c) ==
    /\ At(c, "ensureDir")
    /\ \/ Goto(c, "newPage")
       \/ Goto(c, "finallyThrow")
    /\ UNCHANGED <<pageIndex, attempt, browser, pagesOpen, captured, size,
                   pageBatteryStore, relayed, previous>>
    /\ UNCHANGED <<mainVars, fileVars, httpVars>>

\* index.js:394: browser.newPage(); when it rejects, page stays undefined,
\* the catch of line 485 logs and the finally of line 487 closes nothing.
NewPage(c) ==
    /\ At(c, "newPage")
    /\ \/ /\ pagesOpen' = [pagesOpen EXCEPT ![c] = @ + 1]
          /\ Goto(c, "screenshot")
       \/ /\ Goto(c, "access")
          /\ UNCHANGED pagesOpen
    /\ UNCHANGED <<pageIndex, attempt, browser, captured, size, pageBatteryStore, relayed, previous>>
    /\ UNCHANGED <<mainVars, fileVars, httpVars>>

\* A variant of AfterCapture that closes the page in debug mode too.
AfterCapture_AlwaysClose(c) == Goto(c, "closePage")

\* A variant of AfterCapture that leaves the page open in every mode.
AfterCapture_NeverClose(c) == Goto(c, "access")

\* index.js:488: the page is closed after the capture unless in debug mode.
AfterCapture(c) == IF debug THEN Goto(c, "access") ELSE Goto(c, "closePage")

\* index.js:405-486: emulation, viewport, navigation, marker wait and
\* screenshot.  The screenshot writes the temporary file; any rejection
\* before it is caught at line 485 and leaves the temporary file as it
\* was, with the viewport set (goto and the later calls reject) or not
\* (the emulation calls reject).
Capture(c) ==
    /\ At(c, "screenshot")
    /\ \/ /\ temp' = [temp EXCEPT ![pageIndex[c]] = Screenshot(c)]
          /\ captured' = [captured EXCEPT ![c] = TRUE]
          /\ size' = [size EXCEPT ![c] = EffectiveSize(pageIndex[c], rotation[pageIndex[c]])]
       \/ /\ size' = [size EXCEPT ![c] = EffectiveSize(pageIndex[c], rotation[pageIndex[c]])]
          /\ UNCHANGED <<temp, captured>>
       \/ UNCHANGED <<temp, captured, size>>
    /\ AfterCapture(c)
    /\ UNCHANGED <<pageIndex, attempt, browser, pagesOpen, pageBatteryStore, relayed, previous>>
    /\ UNCHANGED <<mainVars, artifact, encoding, pendingUnlink, httpVars>>

\* index.js:489-493: page.close(); a rejection (the page is gone already)
\* is logged and ignored.
ClosePage(c) ==
    /\ At(c, "closePage")
    /\ pagesOpen' = [pagesOpen EXCEPT ![c] = @ - 1]
    /\ Goto(c, "access")
    /\ UNCHANGED <<pageIndex, attempt, browser, captured, size, pageBatteryStore, relayed, previous>>
    /\ UNCHANGED <<mainVars, fileVars, httpVars>>

\* index.js:317: fs.access(tempPath) decides by the existence of the file,
\* whoever wrote it.
TempFound(i) == FileExists(temp[i])

Access(c) ==
    /\ At(c, "access")
    /\ IF TempFound(pageIndex[c]) THEN Goto(c, "convert") ELSE Goto(c, "catch")
    /\ UNCHANGED <<pageIndex, attempt, browser, pagesOpen, captured, size,
                   pageBatteryStore, relayed, previous>>
    /\ UNCHANGED <<mainVars, fileVars, httpVars>>

\* index.js:548: what toFile(outputPath) leaves at the output path once it
\* has opened it and until it has written the last byte.
WhileWriting(c) == PartialImage(c)

\* index.js:503-548: sharp decodes the temporary file and toFile opens the
\* output path for writing; a missing or undecodable input rejects before
\* the output path is touched.
ConvertOpen(c) ==
    /\ At(c, "convert")
    /\ \/ /\ TempFound(pageIndex[c])
          /\ artifact' = [artifact EXCEPT ![pageIndex[c]] = WhileWriting(c)]
          /\ encoding' = [encoding EXCEPT ![pageIndex[c]] = Encoder(imageFormat(pageIndex[c]))]
          /\ Goto(c, "toFile")
       \/ /\ Goto(c, "catch")
          /\ UNCHANGED <<artifact, encoding>>
    /\ UNCHANGED <<pageIndex, attempt, browser, pagesOpen, captured, size,
                   pageBatteryStore, relayed, previous>>
    /\ UNCHANGED <<mainVars, temp, pendingUnlink, httpVars>>

\* index.js:548, 324-325, 335-346: toFile finishes writing the output path,
\* fs.unlink(tempPath) is started without await, and the loop goes on; or
\* toFile rejects while writing (an I/O error, a corrupt input stream) and
\* the catch of line 326 is entered with the output path half written.
ConvertWrite(c) ==
    /\ At(c, "toFile")
    /\ \/ /\ artifact' = [artifact EXCEPT ![pageIndex[c]] = CompleteImage(c)]
          /\ encoding' = [encoding EXCEPT ![pageIndex[c]] = Encoder(imageFormat(pageIndex[c]))]
          /\ pendingUnlink' = pendingUnlink \cup {<<c, pageIndex[c]>>}
          /\ AfterTarget(c)
       \/ /\ Goto(c, "catch")
          /\ UNCHANGED <<artifact, encoding, pendingUnlink, pageIndex, captured, size,
                         pageBatteryStore, relayed, previous>>
    /\ UNCHANGED <<attempt, browser, pagesOpen>>
    /\ UNCHANGED <<mainVars, temp, httpVars>>

\* index.js:326-333, 335-346: the awaited fs.unlink(tempPath) of the catch
\* block; its own failure is ignored.
CatchUnlink(c) ==
    /\ At(c, "catch")
    /\ temp' = [temp EXCEPT ![pageIndex[c]] = NoFile]
    /\ AfterTarget(c)
    /\ UNCHANGED <<attempt, browser, pagesOpen>>
    /\ UNCHANGED <<mainVars, artifact, encoding, pendingUnlink, httpVars>>

\* index.js:324: the un-awaited fs.unlink(tempPath) settles.  When the file
\* is gone by then the promise rejects and nothing handles the rejection.
UnlinkSettles(c, i) ==
    /\ died = ""
    /\ <<c, i>> \in pendingUnlink
    /\ pendingUnlink' = pendingUnlink \ {<<c, i>>}
    /\ IF TempFound(i)
       THEN /\ temp' = [temp EXCEPT ![i] = NoFile]
            /\ UNCHANGED died
       ELSE /\ died' = "unlink"
            /\ UNCHANGED temp
    /\ UNCHANGED <<debug, env, pages, pixel, rotation, mainPc, cronArmed, listening>>
    /\ UNCHANGED <<cycleVars, artifact, encoding, httpVars>>

\* index.js:347-358: the finally block.  With a browser of its own the
\* cycle closes it, kills the process with SIGKILL when close() left it
\* alive, and pauses; either way the browser process has exited.
Finally(c) ==
    /\ \/ At(c, "finally")
       \/ At(c, "finallyThrow")
    /\ IF existingBrowser(c)
       THEN /\ Goto(c, IF cpc[c] = "finally" THEN "done" ELSE "thrown")
            /\ UNCHANGED <<browser, pagesOpen>>
       ELSE /\ Goto(c, IF cpc[c] = "finally" THEN "pause" ELSE "pauseThrow")
            /\ pagesOpen' = [pagesOpen EXCEPT ![c] = 0]
            /\ browser' = [browser EXCEPT ![c] = "exited"]
    /\ UNCHANGED <<pageIndex, attempt, captured, size, pageBatteryStore, relayed, previous>>
    /\ UNCHANGED <<mainVars, fileVars, httpVars>>

\* index.js:356: the one-second pause, after which the function returns or
\* rethrows the exception that entered the finally block.
Pause(c) ==
    /\ \/ At(c, "pause")
       \/ At(c, "pauseThrow")
    /\ Goto(c, IF cpc[c] = "pause" THEN "done" ELSE "thrown")
    /\ UNCHANGED <<pageIndex, attempt, browser, pagesOpen, captured, size,
                   pageBatteryStore, relayed, previous>>
    /\ UNCHANGED <<mainVars, fileVars, httpVars>>


(***************************************************************************)
(* The HTTP server (index.js:48-61) and handleImageRequest (135-208).      *)
(* Requests are followed one at a time: the next one is received after the *)
(* response to the previous one was written.                               *)
(***************************************************************************)
\* Request paths of the image family, after URL parsing (url.pathname).
Pathnames ==
    { <<"/">>, <<"/", "1">>, <<"/", "2">>, <<"/", "3">>,
      <<"/", "0">>, <<"/", "-", "1">>, <<"/", "a">>, <<"/", "1", "a">> }

\* Values of the batteryLevel query parameter; the empty one stands for a
\* request without the parameter (parseInt(null) is NaN).
BatteryLevelParams ==
    { << >>, <<"4", "2">>, <<"7">>, <<"1", "0", "1">> }

\* Values of the isCharging query parameter ("" when it is absent).
IsChargingParams == {"Yes", "No", ""}

\* Requests of devices that report no telemetry.
PlainPathnames == { <<"/">>, <<"/", "2">>, <<"/", "0">> }

\* index.js:50: new URL(request.url, ...) throws on a request target that
\* is no URL; the async listener's promise rejects and nothing handles it.
BadUrl ==
    /\ died = ""
    /\ listening
    /\ req.pc \in {"idle", "done"}
    /\ died' = "URL"
    /\ UNCHANGED <<debug, env, pages, pixel, rotation, mainPc, cronArmed, listening>>
    /\ UNCHANGED <<cycleVars, fileVars, httpVars>>

\* index.js:150-151; the telemetry parsed at lines 140-141 is dropped.
BadRequest(r) ==
    [NoRequest EXCEPT !.pc = "done", !.status = 400, !.pathname = r.pathname]

\* index.js:203-207
NotFound(r) == [r EXCEPT !.pc = "done", !.status = 404, !.data = NoFile]

\* index.js:166-173
Ok(r, stat, events) ==
    [r EXCEPT !.pc = "done", !.status = 200, !.lastModified = stat,
              !.contentType = ContentType(r.pageNumber - 1), !.events = events]

\* index.js:137-163: the query is parsed and the page number validated;
\* an invalid one is answered 400, a valid one starts readFile.
Received(pathname, batteryLevelParam, isChargingParam) ==
    LET pageNumber == PageNumber(pathname)
        batteryLevel == parseInt(batteryLevelParam)
        r == [NoRequest EXCEPT
                !.pc = "readFile",
                !.pathname = pathname,
                !.pageNumber = IF pageNumber = NaN THEN 0 ELSE pageNumber[1],
                !.batteryLevel = batteryLevel,
                !.isCharging = isChargingParam,
                !.repeated = /\ req.status = 200
                             /\ pageNumber = <<req.pageNumber>>
                             /\ batteryLevel = req.batteryLevel
                             /\ isChargingParam = req.isCharging]
    IN  IF InvalidRequest(pageNumber) THEN BadRequest(r) ELSE r

\* index.js:48-60, 135-163: a request of the image family is received.
Request(pathname, batteryLevelParam, isChargingParam) ==
    /\ died = ""
    /\ listening
    /\ req.pc \in {"idle", "done"}
    /\ req' = Received(pathname, batteryLevelParam, isChargingParam)
    /\ UNCHANGED <<mainVars, cycleVars, fileVars, batteryStore>>

\* index.js:163, 203-207: readFile of the artifact; its rejection is
\* answered 404.
ReadFile ==
    /\ died = ""
    /\ req.pc = "readFile"
    /\ LET i == req.pageNumber - 1
       IN  req' = IF FileExists(artifact[i])
                  THEN [req EXCEPT !.pc = "stat", !.data = artifact[i]]
                  ELSE NotFound(req)
    /\ UNCHANGED <<mainVars, cycleVars, fileVars, batteryStore>>

\* index.js:175-202: the Battery State after a request was answered 200.
StoreAfter(store, r) ==
    Put(store, r.pageNumber - 1,
        UpdatedEntry(EntryOf(store, r.pageNumber - 1), r.batteryLevel, r.isCharging))

\* index.js:164-202: stat of the artifact, the 200 response, then the
\* update of the Battery State of the page.
Stat ==
    /\ died = ""
    /\ req.pc = "stat"
    /\ LET i == req.pageNumber - 1
       IN  IF FileExists(artifact[i])
           THEN /\ req' = Ok(req, artifact[i],
                             LoggedEvents(EntryOf(batteryStore, i),
                                          req.batteryLevel, req.isCharging))
                /\ batteryStore' = StoreAfter(batteryStore, req)
           ELSE /\ req' = NotFound(req)
                /\ UNCHANGED batteryStore
    /\ UNCHANGED <<mainVars, cycleVars, fileVars>>

(***************************************************************************)
(* URL parsing and routing (index.js:48-61) and handleConfigFileRequest    *)
(* (71-132).  A request target, a path name and a file name are sequences  *)
(* of tokens: "/", "\", ".", the escapes "%2f", "%5c", "%2e" and the       *)
(* malformed escape "%zz", and names without any of these characters.      *)
(***************************************************************************)
\* s cut at the separators seps: the list of segments between them; cur is
\* the segment being read and acc the segments read so far.
RECURSIVE Split(_, _, _, _)
Split(s, seps, cur, acc) ==
    IF s = << >> THEN Append(acc, cur)
    ELSE IF Head(s) \in seps
         THEN Split(Tail(s), seps, << >>, Append(acc, cur))
         ELSE Split(Tail(s), seps, Append(cur, Head(s)), acc)

\* The single-dot and double-dot path segments of the URL standard, which
\* takes "%2e" for a dot.
IsSingleDot(seg) == seg \in {<<".">>, <<"%2e">>}

IsDoubleDot(seg) == Len(seg) = 2 /\ seg[1] \in {".", "%2e"} /\ seg[2] \in {".", "%2e"}

ButLast(q) == IF q = << >> THEN q ELSE SubSeq(q, 1, Len(q) - 1)

\* The path state of the URL parser over the segments segs: a double-dot
\* segment removes the last segment of the path, a single-dot segment adds
\* nothing, and either one at the end leaves an empty last segment.
RECURSIVE PathState(_, _)
PathState(segs, out) ==
    IF segs = << >> THEN out
    ELSE LET seg == Head(segs)
             last == Len(segs) = 1
         IN  IF IsDoubleDot(seg)
             THEN PathState(Tail(segs), IF last THEN Append(ButLast(out), << >>)
                                                ELSE ButLast(out))
             ELSE IF IsSingleDot(seg)
             THEN PathState(Tail(segs), IF last THEN Append(out, << >>) ELSE out)
             ELSE PathState(Tail(segs), Append(out, seg))

\* The segments written out as a path name, each after a "/".
RECURSIVE Join(_)
Join(segs) ==
    IF segs = << >> THEN << >> ELSE <<"/">> \o Head(segs) \o Join(Tail(segs))

\* index.js:50-51: new URL(request.url, base).pathname for a request target
\* that starts with "/".  In an http URL a "\" separates segments as "/"
\* does.
UrlPathname(target) ==
    LET path == PathState(Tail(Split(target, {"/", "\\"}, << >>, << >>)), << >>)
    IN  IF path = << >> THEN <<"/">> ELSE Join(path)

\* index.js:54: pathname.startsWith('/config/')
IsConfigPath(pathname) ==
    /\ Len(pathname) >= 3
    /\ SubSeq(pathname, 1, 3) = <<"/", "config", "/">>

\* index.js:74: decodeURIComponent throws a URIError on a malformed escape.
DecodeThrows(s) == \E k \in 1 .. Len(s) : s[k] = "%zz"

\* index.js:74: decodeURIComponent of a well-formed string.
decodeURIComponent(s) ==
    [k \in 1 .. Len(s) |->
        CASE s[k] = "%2f" -> "/"
          [] s[k] = "%5c" -> "\\"
          [] s[k] = "%2e" -> "."
          [] OTHER -> s[k]]

\* index.js:74: pathname.substring(8), the text after "/config/".
SubPath(pathname) == SubSeq(pathname, 4, Len(pathname))

\* path.isAbsolute on POSIX
isAbsolute(p) == p # << >> /\ p[1] = "/"

\* A variant of Suspicious that lets every path through.
Suspicious_Never(requestedPath) == FALSE

\* index.js:77: the first traversal check.
Suspicious(requestedPath) ==
    \/ \E k \in 1 .. (Len(requestedPath) - 1) :
          requestedPath[k] = "." /\ requestedPath[k + 1] = "."
    \/ \E k \in 1 .. Len(requestedPath) : requestedPath[k] = "\\"
    \/ isAbsolute(requestedPath)

\* path.resolve's normalisation: empty and "." segments are dropped and a
\* ".." segment removes the segment before it.
RECURSIVE Normalize(_, _)
Normalize(segs, out) ==
    IF segs = << >> THEN out
    ELSE IF Head(segs) \in {<< >>, <<".">>} THEN Normalize(Tail(segs), out)
    ELSE IF Head(segs) = <<".", ".">> THEN Normalize(Tail(segs), ButLast(out))
    ELSE Normalize(Tail(segs), Append(out, Head(segs)))

\* index.js:12, 86: path.resolve(CONFIG_DIR), as the list of its segments.
CONFIG_DIR == << <<"app">>, <<"kindle-config">> >>

\* index.js:85: path.resolve(CONFIG_DIR, requestedPath); an absolute
\* requestedPath replaces CONFIG_DIR.
Resolve(requestedPath) ==
    Normalize(Split(requestedPath, {"/"}, << >>, << >>),
              IF isAbsolute(requestedPath) THEN << >> ELSE CONFIG_DIR)

\* index.js:88: fullPath is CONFIG_DIR or lies below it.
WithinConfigDir(fullPath) ==
    /\ Len(fullPath) >= Len(CONFIG_DIR)
    /\ SubSeq(fullPath, 1, Len(CONFIG_DIR)) = CONFIG_DIR

\* The file system as fs.stat (index.js:96) finds it: the configuration
\* directory holds readme.txt, kindle.json and the directory sub.
FsStat(fullPath) ==
    IF fullPath \in { CONFIG_DIR \o << <<"readme", ".", "txt">> >>,
                      CONFIG_DIR \o << <<"kindle", ".", "json">> >>,
                      << <<"etc">>, <<"passwd">> >> }
    THEN "file"
    ELSE IF fullPath \in { CONFIG_DIR, CONFIG_DIR \o << <<"sub">> >>,
                           << >>, << <<"etc">> >>, << <<"app">> >> }
    THEN "directory"
    ELSE "ENOENT"

\* index.js:108: path.extname(fullPath).toLowerCase() of names that have at
\* most one dot, which is not their first character.
extname(fullPath) ==
    LET name == IF fullPath = << >> THEN << >> ELSE fullPath[Len(fullPath)]
    IN  IF Len(name) = 3 /\ name[2] = "." THEN <<".", name[3]>> ELSE << >>

\* index.js:211-228
getContentType(ext) ==
    CASE ext \in {<<".", "txt">>, <<".", "sh">>, <<".", "conf">>,
                  <<".", "ini">>, <<".", "cfg">>} -> "text/plain"
      [] ext = <<".", "json">> -> "application/json"
      [] ext = <<".", "xml">> -> "application/xml"
      [] ext = <<".", "html">> -> "text/html"
      [] ext = <<".", "css">> -> "text/css"
      [] ext = <<".", "js">> -> "application/javascript"
      [] ext \in {<<".", "yaml">>, <<".", "yml">>} -> "text/yaml"
      [] OTHER -> "application/octet-stream"

\* A response of handleConfigFileRequest without a body.
ConfigResponse(pathname, status, error) ==
    [NoRequest EXCEPT !.pc = "done", !.pathname = pathname,
                      !.status = status, !.error = error]

\* index.js:72-96: the sub-path is decoded, checked and resolved; a path
\* that passes both checks starts fs.stat.
ConfigReceived(pathname) ==
    IF DecodeThrows(SubPath(pathname))
    THEN ConfigResponse(pathname, 500, "URIError")
    ELSE LET requestedPath == decodeURIComponent(SubPath(pathname))
             fullPath == Resolve(requestedPath)
         IN  IF Suspicious(requestedPath) \/ ~WithinConfigDir(fullPath)
             THEN ConfigResponse(pathname, 403, "")
             ELSE [NoRequest EXCEPT !.pc = "configStat", !.pathname = pathname,
                                    !.fullPath = fullPath]

\* Request targets (request.url) sent to the server.
RequestTargets ==
    { <<"/", "config", "/", "readme", ".", "txt">>,
      <<"/", "config", "/", "kindle", ".", "json">>,
      <<"/", "config", "/", ".", ".", "/", ".", ".", "/", "etc", "/", "passwd">>,
      <<"/", "config", "/", "%2e", "%2e", "/", "etc", "/", "passwd">>,
      <<"/", "config", "/", ".", ".", "%2f", ".", ".", "%2f", "etc", "%2f", "passwd">>,
      <<"/", "config", "/", "sub", "/", ".", ".", "/", "readme", ".", "txt">>,
      <<"/", "config", "/", "sub", "%5c", "readme", ".", "txt">>,
      <<"/", "config", "\\", "readme", ".", "txt">>,
      <<"/", "config", "/", "/", "etc", "/", "passwd">>,
      <<"/", "config", "/", "%2f", "etc", "%2f", "passwd">>,
      <<"/", "config", "/", "readme", ".", ".", "txt">>,
      <<"/", "config", "/", "sub">>,
      <<"/", "config", "/", "missing", ".", "txt">>,
      <<"/", "config", "/">>,
      <<"/", "config", "/", "%zz">>,
      <<"/", "config">> }

\* The two requests a device makes for its configuration.
DeviceTargets ==
    { <<"/", "config", "/", "readme", ".", "txt">>,
      <<"/", "config", "/", ".", ".", "%2f", ".", ".", "%2f", "etc", "%2f", "passwd">> }

\* index.js:48-61: the listener parses the request target and routes the
\* request to the config family or to the image family.
HttpRequest(target) ==
    /\ died = ""
    /\ listening
    /\ req.pc \in {"idle", "done"}
    /\ LET pathname == UrlPathname(target)
       IN  req' = [(IF IsConfigPath(pathname)
                    THEN ConfigReceived(pathname)
                    ELSE Received(pathname, << >>, "")) EXCEPT !.url = target]
    /\ UNCHANGED <<mainVars, cycleVars, fileVars, batteryStore>>

\* Errors of the file system calls other than a missing file.
OtherErrors == {"EACCES"}

\* index.js:96-104, 121-131: fs.stat settles.
ConfigStat ==
    /\ died = ""
    /\ req.pc = "configStat"
    /\ \/ \E e \in OtherErrors :
             req' = [req EXCEPT !.pc = "done", !.status = 500, !.error = e]
       \/ /\ FsStat(req.fullPath) = "ENOENT"
          /\ req' = [req EXCEPT !.pc = "done", !.status = 404, !.error = "ENOENT"]
       \/ /\ FsStat(req.fullPath) = "directory"
          /\ req' = [req EXCEPT !.pc = "done", !.status = 404]
       \/ /\ FsStat(req.fullPath) = "file"
          /\ req' = [req EXCEPT !.pc = "configRead"]
    /\ UNCHANGED <<mainVars, cycleVars, fileVars, batteryStore>>

\* index.js:104-119, 121-131: fs.readFile settles and the file is served,
\* or it rejects (the file was removed after the stat, or another error).
ConfigRead ==
    /\ died = ""
    /\ req.pc = "configRead"
    /\ \/ req' = [req EXCEPT !.pc = "done", !.status = 200, !.data = OldFile,
                             !.lastModified = OldFile,
                             !.contentType = getContentType(extname(req.fullPath))]
       \/ req' = [req EXCEPT !.pc = "done", !.status = 404, !.error = "ENOENT"]
       \/ \E e \in OtherErrors :
             req' = [req EXCEPT !.pc = "done", !.status = 500, !.error = e]
    /\ UNCHANGED <<mainVars, cycleVars, fileVars, batteryStore>>

(***************************************************************************)
(* The program                                                             *)
(***************************************************************************)
\* The steps of render cycle c, from its start to its end.
Render(c) ==
    \/ UnhandledRejection(c)
    \/ Launch(c)
    \/ LoginGoto(c)
    \/ LoginEvaluate(c)
    \/ LoginSettle(c)
    \/ CloseLoginPage(c)
    \/ EnsureDir(c)
    \/ NewPage(c)
    \/ Capture(c)
    \/ ClosePage(c)
    \/ Access(c)
    \/ ConvertOpen(c)
    \/ ConvertWrite(c)
    \/ CatchUnlink(c)
    \/ Finally(c)
    \/ Pause(c)
    \/ \E i \in Pages : UnlinkSettles(c, i)

\* The process up to the start of its HTTP server, and the render cycles.
Daemon ==
    \/ MainStart
    \/ MainArmAndListen
    \/ \E c \in Cycles : Render(c)

\* The daemon and its cron job: render cycles that may overlap, with no
\* device polling.
Next ==
    \/ Daemon
    \/ \E c \in Cycles : CronFire(c)

Spec == Init /\ [][Next]_vars

\* Every operation a render cycle awaits completes or fails (puppeteer's
\* and the page's timeouts, the file system), so a cycle that can take a
\* step takes it.
SpecLive == Init /\ [][Next]_vars /\ \A c \in Cycles : WF_vars(Render(c))

\* The daemon, the first cron firing and devices that poll for images
\* without reporting telemetry: requests race with one render cycle.
NextPoll ==
    \/ Daemon
    \/ CronFire(2)
    \/ BadUrl
    \/ \E pathname \in PlainPathnames : Request(pathname, << >>, "")
    \/ ReadFile
    \/ Stat

SpecPoll == Init /\ [][NextPoll]_vars

\* The daemon until the first cron firing, and devices that poll for
\* images and report telemetry.
InitServe == Init /\ ~debug

NextServe ==
    \/ Daemon
    \/ BadUrl
    \/ \E pathname \in Pathnames, b \in BatteryLevelParams, ch \in IsChargingParams :
          Request(pathname, b, ch)
    \/ ReadFile
    \/ Stat

SpecServe == InitServe /\ [][NextServe]_vars

\* The daemon until the first cron firing, and clients of the config
\* family.
NextConfig ==
    \/ Daemon
    \/ \E target \in RequestTargets : HttpRequest(target)
    \/ ConfigStat
    \/ ConfigRead

SpecConfig == InitServe /\ [][NextConfig]_vars

\* Values of the batteryLevel parameter of a device that reports its level.
ReportedLevels == { << >>, <<"4", "2">> }

\* Either mode with one cron firing, and a device that polls for images,
\* reports its battery level and fetches its configuration: requests of
\* both families race with a render cycle.
NextRelay ==
    \/ Daemon
    \/ CronFire(2)
    \/ \E pathname \in PlainPathnames, b \in ReportedLevels : Request(pathname, b, "Yes")
    \/ ReadFile
    \/ Stat
    \/ \E target \in DeviceTargets : HttpRequest(target)
    \/ ConfigStat
    \/ ConfigRead

SpecRelay == Init /\ [][NextRelay]_vars

\* The process from its start, for every configuration of the rotations:
\* no target at all, or NumPages targets each with one of the Rotations.
InitStartup ==
    /\ Boot
    /\ \E n \in {0, NumPages} :
          /\ rotation \in [0 .. (n - 1) -> Rotations]
          /\ env = DeployedEnv(n)
    /\ pages = getPagesConfig(env)
    /\ pixel = NoPixel
    /\ mainPc = "start"

NextStartup ==
    \/ MainReject
    \/ Daemon

SpecStartup == InitStartup /\ [][NextStartup]_vars

\* Values of the batteryLevel parameter of devices that report telemetry:
\* absent, the two ends of the valid range, below it, above it, and no
\* number.
LevelTexts ==
    { << >>, <<"0">>, <<"1", "0", "0">>, <<"-", "5">>, <<"1", "0", "1">>, <<"a">> }

\* Values of the isCharging parameter: the four the handler knows, absent,
\* and another text.
ChargingTexts == {"Yes", "1", "No", "0", "", "true"}

\* Request paths for each target and for one beyond the last.
TargetPathnames == { <<"/">>, <<"/", "2">>, <<"/", "3">> }

\* The daemon until the first cron firing, and devices that report every
\* kind of telemetry.
NextBattery ==
    \/ Daemon
    \/ \E pathname \in TargetPathnames, b \in LevelTexts, ch \in ChargingTexts :
          Request(pathname, b, ch)
    \/ ReadFile
    \/ Stat

SpecBattery == InitServe /\ [][NextBattery]_vars

\* The ordinals for which the environments below may hold settings with a
\* suffix; a target beyond them has none of its own.
Suffixed == 1 .. 2

\* The process before it loads src/config.js, for every environment that
\* sets or leaves out each variable: a screenshot path per ordinal (unset,
\* empty or a path), and per setting and ordinal of Suffixed one value,
\* the empty string, or nothing.
InitEnv ==
    /\ Boot
    /\ ~debug
    /\ artifact = [i \in Pages |-> NoFile]
    /\ rotation = [i \in Pages |-> 90 * i]
    /\ \E url \in [Ordinals -> {Undefined, "", "/lovelace/0"}],
          format \in [Suffixed -> {Undefined, "", "bmp"}],
          path \in [Suffixed -> {Undefined, "/out/a"}],
          hook \in [Suffixed -> {Undefined, "", "hook"}],
          contrast \in [Suffixed -> {Undefined, "2"}] :
          env = [name \in EnvNames |->
                    LET key == name[1]
                        n == name[2]
                    IN  IF key = "HA_SCREENSHOT_URL" THEN url[n]
                        ELSE IF n \notin Suffixed THEN Undefined
                        ELSE IF key = "IMAGE_FORMAT" THEN format[n]
                        ELSE IF key = "OUTPUT_PATH" THEN path[n]
                        ELSE IF key = "HA_BATTERY_WEBHOOK" THEN hook[n]
                        ELSE contrast[n]]
    /\ pages = << >>
    /\ pixel = NoPixel
    /\ mainPc = "require"

NextEnv == LoadConfig

SpecEnv == InitEnv /\ [][NextEnv]_vars

\* Values of CONTRAST and CONTRAST_n.
ContrastTexts == {Undefined, "0", "1", "2", "high"}

ChannelValues == 0 .. 255

\* The process before it loads src/config.js, for every setting of the
\* contrast of NumPages targets; then the contrast step of any target on
\* any channel value.
InitContrast ==
    /\ Boot
    /\ ~debug
    /\ artifact = [i \in Pages |-> NoFile]
    /\ rotation = [i \in Pages |-> 90 * i]
    /\ \E contrast \in [1 .. NumPages -> ContrastTexts] :
          env = [name \in EnvNames |->
                    IF name[1] = "CONTRAST" /\ name[2] <= NumPages
                    THEN contrast[name[2]]
                    ELSE DeployedEnv(NumPages)[name]]
    /\ pages = << >>
    /\ pixel = NoPixel
    /\ mainPc = "require"

NextContrast ==
    \/ LoadConfig
    \/ \E n \in Ordinals, v \in ChannelValues : Contrast(n, v)

SpecContrast == InitContrast /\ [][NextContrast]_vars


(***************************************************************************)
(* Properties                                                              *)
(***************************************************************************)
\* Render cycle c has been started and has not returned or thrown.
Active(c) == cpc[c] \notin {"idle", "done", "loginThrown", "thrown"}

\* Render cycle c has returned or thrown.
Ended(c) == cpc[c] \in {"done", "loginThrown", "thrown"}

\* Render cycle c takes a step.
StepOf(c) == cpc'[c] # cpc[c]

\* Render cycle c is past the capture session of its current target.
PastCapture(c) == cpc[c] \in {"access", "convert", "toFile", "catch"}

\* C1: the body of every 200 image response is the complete output of one
\* finished post-processing run; a request never returns the bytes of an
\* artifact that a conversion has opened and not finished writing.
C1_ServedImageIsComplete ==
    (req.pc = "done" /\ req.status = 200) => req.data.kind = "complete"

\* C2: when the capture of the current target failed, the cycle goes on to
\* the other targets (it neither stops nor throws) and no step of the cycle
\* changes the artifact of that target.
C2_FailedCaptureKeepsArtifact ==
    [][\A c \in Cycles :
          (PastCapture(c) /\ ~captured[c] /\ StepOf(c)) =>
             /\ artifact'[pageIndex[c]] = artifact[pageIndex[c]]
             /\ cpc'[c] \in {"convert", "toFile", "catch", "ensureDir", "finally"}]_vars

\* C3: when post-processing of the current target fails, the catch block
\* removes the temporary file, the artifact is what it was before the cycle
\* turned to the target, and the cycle goes on to the next target; and when
\* the un-awaited delete of a converted target has run, the temporary file
\* of that target is gone.
C3_FailedConversionKeepsArtifact ==
    [][\A c \in Cycles :
          /\ (cpc[c] = "catch" /\ StepOf(c)) =>
                /\ temp'[pageIndex[c]] = NoFile
                /\ artifact'[pageIndex[c]] = previous[c]
                /\ cpc'[c] \in {"ensureDir", "finally"}
          /\ \A i \in Pages :
                (<<c, i>> \in pendingUnlink /\ <<c, i>> \notin pendingUnlink') =>
                   temp'[i] = NoFile]_vars

\* C4: in daemon mode at most one render cycle is active at any moment.
C4_AtMostOneActiveCycle ==
    ~debug => Cardinality({c \in Cycles : Active(c)}) <= 1

\* C5: in daemon mode the browser of a render cycle is not running any more
\* when the cycle has returned or thrown, and no browser of another cycle is
\* running when a cycle starts.
C5_BrowserTornDown ==
    [][~debug =>
         \A c \in Cycles :
            /\ Ended(c)' => browser'[c] # "running"
            /\ (cpc[c] = "idle" /\ cpc'[c] = "launch") =>
                  \A d \in Cycles \ {c} : browser[d] # "running"]_vars

\* C6: the process is never ended by the unhandled rejection of a failure
\* that is confined to one target (ensureDir, the temporary file's unlink)
\* or to one request (an unparsable URL).
C6_NoTargetOrRequestFailureEscapes ==
    died \notin {"ensureDir", "unlink", "URL"}


\* The request record changed to a written response.
Responds == req' # req /\ req'.pc = "done"

\* text is an integer numeral: an optional minus sign, then digits only.
IsInteger(text) ==
    LET u == IF text # << >> /\ Head(text) = "-" THEN Tail(text) ELSE text
    IN  u # << >> /\ \A k \in 1 .. Len(u) : u[k] \in Digits

\* The text after the leading slash of pathname is an integer n with
\* 1 <= n <= targetCount.
IsTargetIndex(pathname) ==
    /\ IsInteger(Tail(pathname))
    /\ parseInt(Tail(pathname))[1] >= 1
    /\ parseInt(Tail(pathname))[1] <= NumPages

\* C7: a request whose path is not "/" is answered 400 unless the text
\* after the slash is an integer in 1..targetCount, and a 400 response reads
\* no artifact and changes no Battery State.
C7_BadIndexIs400 ==
    [][(Responds /\ req'.pathname # <<"/">>) =>
          /\ req'.status = 400 <=> ~IsTargetIndex(req'.pathname)
          /\ req'.status = 400 => (req'.data = NoFile /\ batteryStore' = batteryStore)]_vars

\* C8: a request with a valid index is answered 404 when the artifact of
\* its target cannot be read and otherwise 200 with the bytes that were read
\* and Content-Type image/{format of the target}; no other status occurs.
C8_ValidIndexIs200Or404 ==
    [][(Responds /\ ~InvalidRequest(PageNumber(req'.pathname))) =>
          LET i == req'.pageNumber - 1
          IN  /\ req'.status \in {200, 404}
              /\ req'.status = 404 <=> ~FileExists(artifact[i])
              /\ req'.status = 200 =>
                    /\ FileExists(req'.data)
                    /\ req'.data = req.data
                    /\ req'.contentType = "image/" \o imageFormat(i)]_vars

C8_Witness ==
    /\ req.pc = "done"
    /\ req.status = 200
    /\ req.pageNumber = 2
    /\ req.contentType = "image/bmp"
    /\ req.data.kind = "complete"

\* The level stored for the target of request r equals the level it reported.
LevelRecorded(store, r) ==
    /\ (r.pageNumber - 1) \in DOMAIN store
    /\ store[r.pageNumber - 1].batteryLevel = r.batteryLevel

\* C9 (as claimed): a request with a valid index and a batteryLevel in
\* 0..100 leaves the stored level of its target equal to the reported one
\* whatever the response status.
C9_LevelRecordedWhateverStatus ==
    (req.pc = "done" /\ req.status \in {200, 404} /\ ValidBatteryLevel(req.batteryLevel))
        => LevelRecorded(batteryStore, req)

\* C9 (amended): such a request leaves the stored level equal to the
\* reported one when it is answered 200; a response other than 200 leaves
\* the Battery State as it was.
C9_LevelRecordedWhenServed ==
    [][Responds =>
          /\ (req'.status = 200 /\ ValidBatteryLevel(req'.batteryLevel))
                => LevelRecorded(batteryStore', req')
          /\ req'.status # 200 => batteryStore' = batteryStore]_vars

C9_Witness ==
    /\ req.pc = "done"
    /\ req.status = 200
    /\ req.batteryLevel = <<7>>
    /\ LevelRecorded(batteryStore, req)
    /\ \E i \in DOMAIN batteryStore : batteryStore[i].batteryLevel = <<42>>

\* C10: a request that repeats the page, batteryLevel and isCharging of the
\* request answered 200 just before it leaves the Battery State unchanged
\* and logs nothing; and any request logs a level event exactly when the
\* stored level changes, a charging event exactly when the flag changes.
C10_TelemetryIdempotent ==
    [][Responds =>
          LET i == req'.pageNumber - 1
              old == EntryOf(batteryStore, i)
              new == EntryOf(batteryStore', i)
          IN  /\ req'.repeated => (batteryStore' = batteryStore /\ req'.events = {})
              /\ req'.status = 200 =>
                    /\ "New battery level" \in req'.events
                          <=> new.batteryLevel # old.batteryLevel
                    /\ "Battery started charging" \in req'.events
                          <=> (new.isCharging /\ ~old.isCharging)
                    /\ "Battery stopped charging" \in req'.events
                          <=> (~new.isCharging /\ old.isCharging)
              /\ req'.status # 200 => req'.events = {}]_vars

C10_Witness ==
    /\ req.pc = "done"
    /\ req.status = 200
    /\ req.repeated
    /\ req.batteryLevel = <<42>>
    /\ req.isCharging = "Yes"
    /\ req.events = {}
    /\ batteryStore[req.pageNumber - 1] = [batteryLevel |-> <<42>>, isCharging |-> TRUE]


\* r is a multiple of m.
IsMultiple(r, m) == \E k \in -8 .. 8 : r = k * m

\* C13: when no target is configured, or the rotation of some target is not
\* a multiple of 90 (positive or negative), no browser is launched, no
\* render cycle runs, no cron trigger is armed and the server never listens.
C13_InvalidConfigStartsNothing ==
    (DOMAIN rotation = {} \/ \E i \in DOMAIN rotation : ~IsMultiple(rotation[i], 90)) =>
        /\ \A c \in Cycles : cpc[c] = "idle" /\ browser[c] = "none"
        /\ ~cronArmed
        /\ ~listening

\* C14: for a target whose rotation r is a multiple of 90, the size used for
\* the viewport and the screenshot clip is (height, width) when r is not a
\* multiple of 180 and (width, height) when it is.
C14_SizeSwappedOnQuarterTurns ==
    \A c \in Cycles :
        LET i == pageIndex[c]
            W == renderingScreenSize(i).width
            H == renderingScreenSize(i).height
        IN  (size[c] # NoSize /\ IsMultiple(rotation[i], 90)) =>
                size[c] = IF IsMultiple(rotation[i], 180)
                          THEN [width |-> W, height |-> H]
                          ELSE [width |-> H, height |-> W]


\* C15: in daemon mode the first render cycle starts at once, the cron
\* trigger is armed only when that cycle has returned, and every cycle
\* started later is started by the armed trigger, launches a browser of its
\* own and has that browser torn down when it returns.
C15_FirstCycleThenCron ==
    [][~debug =>
         /\ (mainPc = "start" /\ mainPc' = "awaitFirstRender") =>
                (cpc'[1] = "launch" /\ ~cronArmed')
         /\ (~cronArmed /\ cronArmed') => (cpc[1] = "done" /\ browser[1] = "exited")
         /\ \A c \in Cycles \ {1} :
               /\ (cpc[c] = "idle" /\ StepOf(c)) =>
                     (cronArmed /\ cpc'[c] = "launch" /\ browser[c] = "none")
               /\ (cpc[c] = "launch" /\ cpc'[c] = "goto") =>
                     (browser[c] = "none" /\ browser'[c] = "running")
               /\ (StepOf(c) /\ cpc'[c] = "done") => browser'[c] = "exited"]_vars

C15_Witness ==
    /\ ~debug
    /\ cronArmed
    /\ cpc[2] = "done"
    /\ browser[1] = "exited"
    /\ browser[2] = "exited"

InOrder(c) ==
    pageIndex'[c] # pageIndex[c] =>
        /\ pageIndex'[c] = pageIndex[c] + 1
        /\ cpc[c] \in {"toFile", "catch"}

FormatEncoding(format) ==
    CASE format = "png" -> "png"
      [] format = "bmp" -> "bmp"
      [] format \in {"jpg", "jpeg"} -> "jpeg"
      [] OTHER -> "png"

\* C20: an artifact written by the post-processor is encoded in the format
\* configured for its target (PNG, BMP or JPEG; PNG for any other format
\* string), so that the bytes served as image/{format} are in that format.
C20_ArtifactInConfiguredFormat ==
    \A i \in Pages :
        encoding[i] # "" => encoding[i] = FormatEncoding(imageFormat(i))


\* The sub-path p names a parent directory, holds a backslash or is absolute.
IsTraversal(p) ==
    \/ \E k \in 1 .. Len(Split(p, {"/"}, << >>, << >>)) :
          Split(p, {"/"}, << >>, << >>)[k] = <<".", ".">>
    \/ \E k \in 1 .. Len(p) : p[k] = "\\"
    \/ (p # << >> /\ Head(p) = "/")

\* The file fullPath lies strictly inside the root directory.
BelowRoot(fullPath) ==
    /\ Len(fullPath) > Len(CONFIG_DIR)
    /\ \A k \in 1 .. Len(CONFIG_DIR) : fullPath[k] = CONFIG_DIR[k]

\* The decoded sub-path of a config-family response r whose sub-path could
\* be decoded.
DecodedSubPath(r) == decodeURIComponent(SubPath(r.pathname))

\* C18: the request for /config/../../etc/passwd is answered 403; every
\* config-family request whose sub-path names a parent directory, holds a
\* backslash or is absolute is answered 403 and reads no file; and the
\* request for /config/readme.txt, an existing file inside the root, is
\* answered 200 with Content-Type text/plain unless the file system fails.
C18_TraversalIs403 ==
    [][Responds =>
          /\ req'.url = <<"/", "config", "/", ".", ".", "/", ".", ".", "/", "etc", "/", "passwd">>
                => (req'.status = 403 /\ req'.data = NoFile)
          /\ ( /\ IsConfigPath(req'.pathname)
               /\ ~DecodeThrows(SubPath(req'.pathname))
               /\ IsTraversal(DecodedSubPath(req')) )
                => (req'.status = 403 /\ req'.fullPath = << >> /\ req'.data = NoFile)
          /\ (req'.url = <<"/", "config", "/", "readme", ".", "txt">> /\ req'.error = "")
                => (req'.status = 200 /\ req'.contentType = "text/plain")]_vars

RelayDecision(c) ==
    /\ cpc[c] \in {"toFile", "catch"}
    /\ cpc'[c] \in {"ensureDir", "finally"}

\* C11: at the relay decision for target i, whether its render succeeded or
\* failed, a webhook POST for i is sent exactly when a battery level is
\* stored for i at that point and i has a webhook identifier, also when the
\* entry of i was created while i was being rendered; and no POST for i was
\* sent earlier in the cycle.
C11_RelayIffLevelStored ==
    [][\A c \in Cycles :
          RelayDecision(c) =>
             LET i == pageIndex[c]
             IN  /\ i \notin relayed[c]
                 /\ relayed'[c] \ {i} = relayed[c]
                 /\ i \in relayed'[c] <=>
                       /\ i \in DOMAIN batteryStore
                       /\ batteryStore[i].batteryLevel # Null
                       /\ batteryWebHook(i) # "null"]_vars

\* C12: only the answer to an image request changes the Battery State, and
\* it changes the entry of the requested target only; no step of a render
\* cycle or of the relay changes it; and no step of an HTTP request of
\* either family starts a render cycle, arms the cron trigger or creates,
\* writes or deletes an artifact or a temporary file.
C12_SharedStateOneWay ==
    [][/\ batteryStore' # batteryStore =>
             /\ req.pc = "stat"
             /\ req'.pc = "done"
             /\ \A j \in Pages \ {req.pageNumber - 1} :
                   /\ j \in DOMAIN batteryStore' <=> j \in DOMAIN batteryStore
                   /\ j \in DOMAIN batteryStore => batteryStore'[j] = batteryStore[j]
       /\ ((\E c \in Cycles : StepOf(c)) \/ relayed' # relayed \/ fileVars' # fileVars)
             => batteryStore' = batteryStore
       /\ req' # req =>
             /\ cycleVars' = cycleVars
             /\ fileVars' = fileVars
             /\ cronArmed' = cronArmed]_vars

C12_Witness ==
    /\ Active(2)
    /\ 0 \in relayed[2]
    /\ DOMAIN batteryStore = Pages
    /\ batteryStore[0].batteryLevel = <<42>>
    /\ batteryStore[1].batteryLevel = <<42>>
    /\ req.pc = "done"
    /\ req.status = 200
    /\ IsConfigPath(req.pathname)

(***************************************************************************)
(* The configuration of the targets                                        *)
(***************************************************************************)
\* src/config.js has been loaded.
Loaded == mainPc # "require"

\* The settings a target may take from the first target, with the field of
\* the page entry each one fills.
Settings == {"IMAGE_FORMAT", "OUTPUT_PATH", "HA_BATTERY_WEBHOOK", "CONTRAST"}

SettingOf(page, key) ==
    CASE key = "IMAGE_FORMAT" -> <<page.imageFormat>>
      [] key = "OUTPUT_PATH" -> <<page.outputPath>>
      [] key = "HA_BATTERY_WEBHOOK" -> <<page.batteryWebHook>>
      [] key = "CONTRAST" -> page.contrast

\* The targets are the ordinals before the first one without a screenshot
\* path.
ConsecutiveTargets ==
    \A n \in Ordinals :
        n <= Len(pages) <=> \A k \in 1 .. n : Truthy(Lookup(env, "HA_SCREENSHOT_URL", k))

\* C21: the targets are the consecutive ordinals up to the first one whose
\* screenshot path is not set, and every setting that target n >= 2 is not
\* given with its suffix, the output path included, has the value it has
\* for target 1.
C21_TargetsInheritEverySetting ==
    Loaded =>
        /\ ConsecutiveTargets
        /\ \A n \in 2 .. Len(pages) : \A key \in Settings :
               Lookup(env, key, n) = Undefined =>
                   SettingOf(pages[n], key) = SettingOf(pages[1], key)

\* C21 as the code has it: the targets are the consecutive ordinals up to
\* the first one whose screenshot path is unset or empty; a setting other
\* than the output path that target n >= 2 is not given with its suffix
\* has target 1's value, and an output path not given with its suffix is
\* output/cover_n, whatever OUTPUT_PATH is.
C21_TargetsInheritButOutputPath ==
    Loaded =>
        /\ ConsecutiveTargets
        /\ \A n \in 2 .. Len(pages) :
               /\ \A key \in Settings \ {"OUTPUT_PATH"} :
                      Lookup(env, key, n) = Undefined =>
                          SettingOf(pages[n], key) = SettingOf(pages[1], key)
               /\ Lookup(env, "OUTPUT_PATH", n) = Undefined =>
                      pages[n].outputPath = "output/cover" \o Suffix(n)

\* Three targets; the third takes its format, webhook and contrast from
\* the first, whose output path is set, and has an output path of its own.
C21_Witness ==
    /\ Loaded
    /\ Len(pages) = 3
    /\ Lookup(env, "OUTPUT_PATH", 1) = "/out/a"
    /\ pages[3].outputPath = "output/cover_3"
    /\ pages[3].imageFormat = "bmp"
    /\ pages[3].batteryWebHook = "hook"
    /\ pages[3].contrast = <<2>>
    /\ pages[2].imageFormat = "png"

(***************************************************************************)
(* The contrast step                                                       *)
(***************************************************************************)
\* The contrast target n is configured with: CONTRAST_n, CONTRAST when that
\* is not given, 1 when neither is.
ConfiguredContrast(n) ==
    LET text == getEnvironmentVariable(env, "CONTRAST", n, Undefined)
    IN  IF text = Undefined THEN <<1>> ELSE Number(text)

\* C22: a channel value v of a target configured with contrast c comes out
\* of the contrast step as v*c + (128 - 128*c) whenever that is a channel
\* value: unchanged for contrast 1, 128 for contrast 0.
C22_ContrastIsLinearAround128 ==
    pixel.target # 0 =>
        LET c == ConfiguredContrast(pixel.target)
            expected == pixel.in * c[1] + (128 - 128 * c[1])
        IN  (c # NaN /\ expected \in ChannelValues) => pixel.out = expected

(***************************************************************************)
(* The login retries                                                       *)
(***************************************************************************)
LoginStep(c) ==
    /\ attempt'[c] <= 3
    /\ (cpc[c] = "evaluate" /\ cpc'[c] # "evaluate") =>
           \/ cpc'[c] = "closeLoginPage"
           \/ attempt[c] < 3 /\ cpc'[c] = "settle"
           \/ attempt[c] = 3 /\ cpc'[c] = "loginThrown"
    /\ (cpc'[c] = "evaluate" /\ cpc[c] # "evaluate") =>
           \/ cpc[c] = "goto" /\ attempt'[c] = 1
           \/ cpc[c] = "settle" /\ attempt'[c] = attempt[c] + 1
    /\ attempt'[c] > attempt[c] => cpc'[c] = "evaluate"
    /\ cpc[c] = "loginThrown" =>
           /\ cpc'[c] = "loginThrown"
           /\ pagesOpen'[c] = 0
           /\ ~captured'[c]
           /\ \A i \in Pages : temp'[i].by # c /\ artifact'[i].by # c

\* C23: the storage write is attempted at most 3 times per browser: a
\* successful attempt goes on to close the login page with no further
\* write, a failed attempt 1 or 2 is followed by the settle wait and the
\* next attempt, a failed attempt 3 throws out of launchBrowserAndLogin, and
\* a cycle whose login threw opens no target page and writes no file.
C23_LoginTriedAtMostThreeTimes == [][\A c \in Cycles : LoginStep(c)]_vars

\* The third attempt of some cycle failed and its login threw.
C23_Witness ==
    \E c \in Cycles :
        cpc[c] = "loginThrown" /\ attempt[c] = 3 /\ browser[c] = "running"

(***************************************************************************)
(* When the server starts listening                                        *)
(***************************************************************************)
\* Daemon mode: the server listens, and the cron job is armed, only once the
\* first cycle has returned; while the first cycle runs no request has been
\* received; after a first cycle that threw, nothing is armed or started.
DaemonServesAfterFirstCycle ==
    /\ (listening \/ cronArmed) => cpc[1] = "done"
    /\ Active(1) => req = NoRequest
    /\ cpc[1] \in {"loginThrown", "thrown"} =>
           /\ ~cronArmed
           /\ ~listening
           /\ req = NoRequest
           /\ \A c \in Cycles \ {1} : cpc[c] = "idle"

\* C28: in daemon mode the server listens only after the first cycle has
\* returned, no request is answered while the first cycle runs, and a first
\* cycle that throws leaves the cron job unarmed and the server not
\* started; in debug mode the server starts to listen while the single
\* cycle is running.
C28_ListenAfterFirstCycleUnlessDebug ==
    [][/\ ~debug => DaemonServesAfterFirstCycle'
       /\ (debug /\ ~listening /\ listening') => Active(1)']_vars

\* Debug mode: a request was answered 200 while the single cycle runs.
C28_Witness ==
    /\ debug
    /\ listening
    /\ Active(1)
    /\ req.pc = "done"
    /\ req.status = 200

(***************************************************************************)
(* Whose temporary file a cycle converts                                   *)
(***************************************************************************)
\* C26: under every interleaving, a cycle opens the output path of its
\* current target for a conversion only if its own capture of that target
\* succeeded and the temporary file is the screenshot that capture wrote.
C26_ConvertsOwnCaptureOnly ==
    [][\A c \in Cycles :
          (cpc[c] = "convert" /\ cpc'[c] = "toFile") =>
             /\ captured[c]
             /\ temp[pageIndex[c]] = Screenshot(c)]_vars

(***************************************************************************)
(* The version an image response describes                                 *)
(***************************************************************************)
\* C27: the body of every 200 image response and its Last-Modified header
\* are taken from the same version of the artifact.
C27_BodyAndLastModifiedAgree ==
    (req.pc = "done" /\ req.status = 200) => req.lastModified = req.data

(***************************************************************************)
(* The Battery State                                                       *)
(***************************************************************************)
\* level is a number in 0..100.
InRange(level) == level # NaN /\ level[1] \in 0 .. 100

\* Every entry belongs to a configured target and holds null or an integer
\* in 0..100, and a boolean.
WellFormed(store) ==
    \A i \in DOMAIN store :
        /\ i \in Pages
        /\ store[i].batteryLevel = Null \/ InRange(store[i].batteryLevel)
        /\ store[i].isCharging \in BOOLEAN

\* C25: every Battery State entry has a level that is null or an integer in
\* 0..100 and a boolean charging flag, entries exist only for the indices of
\* configured targets, and a request whose batteryLevel is absent, no
\* number, below 0 or above 100 leaves every stored level and charging flag
\* as it was.
C25_BatteryStateWellFormed ==
    [][/\ WellFormed(batteryStore')
       /\ (Responds /\ ~InRange(req'.batteryLevel)) =>
              \A i \in Pages : EntryOf(batteryStore', i) = EntryOf(batteryStore, i)]_vars

\* A level of 100 is stored for the first target, and a request for it that
\* reported 101 has been answered 200.
C25_Witness ==
    /\ 0 \in DOMAIN batteryStore
    /\ batteryStore[0].batteryLevel = <<100>>
    /\ req.pc = "done"
    /\ req.status = 200
    /\ req.pageNumber = 1
    /\ req.batteryLevel = <<101>>

\* C29: the charging flag of target i changes only in the handling of a
\* request to index i that is answered 200 and carries a batteryLevel in
\* 0..100 and an isCharging of Yes, 1, No or 0; so a request without a valid
\* batteryLevel, or with another isCharging text, leaves the flag as it was.
C29_ChargingFlagNeedsValidLevel ==
    [][\A i \in Pages :
          EntryOf(batteryStore', i).isCharging # EntryOf(batteryStore, i).isCharging =>
             /\ Responds
             /\ req'.status = 200
             /\ req'.pageNumber = i + 1
             /\ InRange(req'.batteryLevel)
             /\ req'.isCharging \in {"Yes", "1", "No", "0"}]_vars

\* The first target is stored as charging, and a request for it that said
\* No without a batteryLevel has been answered 200.
C29_Witness ==
    /\ 0 \in DOMAIN batteryStore
    /\ batteryStore[0].isCharging
    /\ req.pc = "done"
    /\ req.status = 200
    /\ req.pageNumber = 1
    /\ req.isCharging = "No"
    /\ req.batteryLevel = NaN

(***************************************************************************)
(* Termination of a render cycle                                           *)
(***************************************************************************)
\* Cycle c has turned to every target.
AttemptedAll(c) == pageIndex[c] = NumPages

\* Cycle c turns to the targets in order and calls renderUrlToImageAsync
\* once for each target it turns to; its end is final.
OneAttemptEach(c) ==
    /\ InOrder(c)
    /\ (cpc'[c] = "newPage" /\ StepOf(c)) => cpc[c] = "ensureDir"
    /\ (cpc'[c] = "ensureDir" /\ StepOf(c)) =>
           \/ cpc[c] = "closeLoginPage" /\ pageIndex'[c] = 0
           \/ pageIndex'[c] = pageIndex[c] + 1
    /\ cpc'[c] = "done" => AttemptedAll(c)'
    /\ Ended(c) => cpc'[c] = cpc[c]

\* C24: every started render cycle reaches its end, and at its end it has
\* attempted each of the targets exactly once.
C24_CycleEndsHavingTriedEveryTarget ==
    /\ \A c \in Cycles : cpc[c] = "launch" ~> Ended(c)
    /\ [](\A c \in Cycles : Ended(c) => AttemptedAll(c))

\* C24 as the code has it: every started render cycle returns or throws
\* unless the process is ended first; it attempts no target twice; a cycle
\* that returns has attempted every target, and a cycle that throws (login,
\* ensureDir) has attempted the targets before the failure only.
C24_CycleEndsWithoutRetry ==
    /\ \A c \in Cycles : cpc[c] = "launch" ~> (Ended(c) \/ died # "")
    /\ [][\A c \in Cycles : OneAttemptEach(c)]_vars

\* The first cycle has returned: the first target failed and was not tried
\* again, the second was converted.
C24_Witness ==
    /\ cpc[1] = "done"
    /\ AttemptedAll(1)
    /\ artifact[0] = NoFile
    /\ artifact[1] = CompleteImage(1)

====
